---- MODULE Spec2Model ----
(***************************************************************************)
(* MARigKit: the two Blender add-ons NH_SyncTransform (copy-constraint     *)
(* rigging between two armatures) and NH_BoneCleaner (unused bones and     *)
(* vertex groups of a mesh/armature rig), as state machines over the part  *)
(* of the host scene their operators read and write.                       *)
(*                                                                         *)
(* Strings the code takes apart (constraint and pose-bone names: prefix    *)
(* concatenation, startswith, sorted) are sequences of code points, so     *)
(* that "NH_SYNC_ROT_" + "ab" is a concatenation and sorted() is an order  *)
(* on code points.  Names the code only compares for equality (objects,    *)
(* modifiers, vertex groups, data bones, enum values) are TLA+ strings.    *)
(***************************************************************************)
EXTENDS Integers, Sequences, FiniteSets, TLC

VARIABLES
    \* ---- host scene, NH_SyncTransform ----
    pose,             \* pose[a][n]: the constraint stack of pose bone n of armature a
    source,           \* scene.nh_sync_source
    target,           \* scene.nh_sync_target
    common_bones,     \* the list get_common_bone_names last returned
    before,           \* history: pose as it was when the last step began
    \* ---- host scene, NH_BoneCleaner ----
    selected_objects, \* the selected mesh objects (context.selected_objects, type MESH)
    active,           \* view_layer.objects.active
    mode,             \* context.mode
    modifiers,        \* modifiers[m][name]: the modifier of that name on mesh m, or NoMod
    vertex_groups,    \* vertex_groups[m]: the list of vertex-group names of mesh m
    vertices,         \* vertices[m][v]: the weight entries (group index, weight) of vertex v
    bones,            \* bones[a][b]: arm.data.bones, the parent of bone b of armature a, or None
    edit_bones,       \* edit_bones[a][b]: arm.data.edit_bones, the same for the Edit Mode copy
    select,           \* select[a]: the selected edit bones of armature a
    \* ---- what the last Select Unused Bones call read, kept while only
    \* ---- Delete Selected Bones has run since ----
    preserve_hierarchy, \* bone_cleaner_props.preserve_hierarchy (TRUE, its default, otherwise)
    mod_name,         \* bone_cleaner_props.modifier_name ("" otherwise)
    arm,              \* the armature it resolved (None otherwise)
    \* ---- the last operator call ----
    op,               \* bl_idname of the last operator run ("user" after a user edit)
    result,           \* what execute returned
    reports           \* the self.report calls of that execute, in order

vars == <<pose, source, target, common_bones, before, selected_objects, active, mode,
          modifiers, vertex_groups, vertices, bones, edit_bones, select,
          preserve_hierarchy, mod_name, arm, op, result, reports>>

sync_vars == <<pose, source, target, common_bones, before>>

\* what of the NH_BoneCleaner side is the scene, not the record of a call
cleaner_scene == <<selected_objects, active, mode, modifiers, vertex_groups,
                   vertices, bones, edit_bones, select>>

None == "None"

\* the step forgets the last Select Unused Bones call
NoSelectCall == preserve_hierarchy' = TRUE /\ mod_name' = "" /\ arm' = None

Armatures == {"A1", "A2"}

Meshes == {"M1", "M2"}

----------------------------------------------------------------------------
(* Strings as sequences of code points *)

\* "NH_SYNC_ROT_", "NH_SYNC_LOC_", "NH_SYNC_SCL_"
PREFIXES ==
    [ROT |-> <<78, 72, 95, 83, 89, 78, 67, 95, 82, 79, 84, 95>>,
     LOC |-> <<78, 72, 95, 83, 89, 78, 67, 95, 76, 79, 67, 95>>,
     SCL |-> <<78, 72, 95, 83, 89, 78, 67, 95, 83, 67, 76, 95>>]

ALL_PREFIXES == <<PREFIXES.ROT, PREFIXES.LOC, PREFIXES.SCL>>

\* str.startswith with one prefix
StartsWith(s, p) == Len(s) >= Len(p) /\ SubSeq(s, 1, Len(p)) = p

\* a variant that tests the first prefix only
startswith_first_only(s, prefixes) == StartsWith(s, prefixes[1])

\* str.startswith with a tuple of prefixes
startswith(s, prefixes) == \E i \in 1..Len(prefixes) : StartsWith(s, prefixes[i])

\* str.__lt__: the order of the first differing code point, a proper prefix first
StrLess(s, t) ==
    \E k \in 1..(Len(t)) :
        /\ k <= Len(s) + 1
        /\ SubSeq(s, 1, k - 1) = SubSeq(t, 1, k - 1)
        /\ (k = Len(s) + 1 \/ s[k] < t[k])

RECURSIVE sorted(_)
\* sorted(iterable) of distinct strings: ascending
sorted(S) ==
    IF S = {} THEN <<>>
    ELSE LET m == CHOOSE x \in S : \A y \in S : x = y \/ StrLess(x, y)
         IN  <<m>> \o sorted(S \ {m})

----------------------------------------------------------------------------
(* NH_SyncTransform *)

\* armature.pose.bones.keys()
keys(armature) == DOMAIN pose[armature]

\* a variant that returns the names of the first armature
get_common_bone_names_first(armature1, armature2) == sorted(keys(armature1))

get_common_bone_names(armature1, armature2) ==
    sorted(keys(armature1) \cap keys(armature2))

has_sync_constraint(stack) ==
    \E i \in 1..Len(stack) : startswith(stack[i].name, ALL_PREFIXES)

\* bone.constraints.remove(c): the stack without its element c
ConstraintsRemove(stack, c) ==
    IF \E i \in 1..Len(stack) : stack[i] = c
    THEN LET i == CHOOSE j \in 1..Len(stack) :
                      stack[j] = c /\ \A k \in 1..(j - 1) : stack[k] # c
         IN  SubSeq(stack, 1, i - 1) \o SubSeq(stack, i + 1, Len(stack))
    ELSE stack

RECURSIVE RemoveLoop(_, _, _)
\* the loop of _remove_existing_constraints over the copy list(bone.constraints)
RemoveLoop(stack, copy, i) ==
    IF i > Len(copy) THEN stack
    ELSE IF startswith(copy[i].name, ALL_PREFIXES)
         THEN RemoveLoop(ConstraintsRemove(stack, copy[i]), copy, i + 1)
         ELSE RemoveLoop(stack, copy, i + 1)

\* a variant that removes nothing
_remove_existing_constraints_skip(stack) == stack

\* a variant that removes the first sync constraint only
_remove_existing_constraints_first(stack) ==
    IF has_sync_constraint(stack)
    THEN ConstraintsRemove(stack,
             stack[CHOOSE i \in 1..Len(stack) :
                       /\ startswith(stack[i].name, ALL_PREFIXES)
                       /\ \A k \in 1..(i - 1) : ~startswith(stack[k].name, ALL_PREFIXES)])
    ELSE stack

_remove_existing_constraints(stack) == RemoveLoop(stack, stack, 1)

\* ".001", ".002", ...: the suffix the host appends to make a name unique
Suffix(k) == <<46, 48, 48, 48 + k>>

\* the host keeps constraint names unique within one stack: assigning a name
\* another constraint of the stack has gives name.001, name.002, ...
UniqueName(stack, name) ==
    IF \A i \in 1..Len(stack) : stack[i].name # name THEN name
    ELSE LET k == CHOOSE j \in 1..9 :
                      /\ \A i \in 1..Len(stack) : stack[i].name # name \o Suffix(j)
                      /\ \A h \in 1..(j - 1) :
                             \E i \in 1..Len(stack) : stack[i].name = name \o Suffix(h)
         IN  name \o Suffix(k)

\* bone.constraints.new(type=ctype) and the five assignments; the new
\* constraint goes to the end of the stack
_new_constraint(stack, ctype, name, src, subtarget) ==
    Append(stack, [type         |-> ctype,
                   name         |-> UniqueName(stack, name),
                   target       |-> src,
                   subtarget    |-> subtarget,
                   target_space |-> "WORLD",
                   owner_space  |-> "WORLD"])

\* the body of apply_constraints' loop for one bone of the target
ApplyToBone(stack, src, bone_name) ==
    LET s0 == _remove_existing_constraints(stack)
        s1 == _new_constraint(s0, "COPY_ROTATION", PREFIXES.ROT \o bone_name, src, bone_name)
        s2 == _new_constraint(s1, "COPY_LOCATION", PREFIXES.LOC \o bone_name, src, bone_name)
        s3 == _new_constraint(s2, "COPY_SCALE", PREFIXES.SCL \o bone_name, src, bone_name)
    IN  s3

RECURSIVE ApplyLoop(_, _, _, _)
\* apply_constraints: tgt is target.pose.bones, i the position in common_bones
ApplyLoop(tgt, src, common, i) ==
    IF i > Len(common) THEN tgt
    ELSE IF common[i] \notin DOMAIN tgt
         THEN ApplyLoop(tgt, src, common, i + 1)
         ELSE ApplyLoop([tgt EXCEPT ![common[i]] = ApplyToBone(tgt[common[i]], src, common[i])],
                        src, common, i + 1)

apply_constraints(src, tgt, common) ==
    [pose EXCEPT ![tgt] = ApplyLoop(pose[tgt], src, common, 1)]

remove_constraints(tgt) ==
    [pose EXCEPT ![tgt] = [n \in DOMAIN pose[tgt] |-> _remove_existing_constraints(pose[tgt][n])]]

\* self.report({type}, msg); msg is the tuple of the message's parts, an
\* f-string's number kept as a number
Report(type, msg) == [type |-> type, msg |-> msg]

\* NH_OT_ApplySyncTransform.execute
ApplySyncTransform ==
    /\ op' = "nh.apply_sync_transform"
    /\ IF source = None \/ target = None
       THEN /\ reports' = <<Report("WARNING", <<"Source and Target Armature must be set">>)>>
            /\ result' = "CANCELLED"
            /\ UNCHANGED <<pose, common_bones>>
       ELSE /\ common_bones' = get_common_bone_names(source, target)
            /\ pose' = apply_constraints(source, target, common_bones')
            /\ reports' = <<Report("INFO", <<"Applied constraints to", Len(common_bones'), "bones">>)>>
            /\ result' = "FINISHED"
    /\ before' = pose
    /\ UNCHANGED <<source, target>>
    /\ UNCHANGED cleaner_scene /\ NoSelectCall

\* NH_OT_RemoveSyncTransform.execute
RemoveSyncTransform ==
    /\ op' = "nh.remove_sync_transform"
    /\ IF target = None
       THEN /\ reports' = <<Report("WARNING", <<"Target Armature must be set">>)>>
            /\ result' = "CANCELLED"
            /\ UNCHANGED pose
       ELSE /\ pose' = remove_constraints(target)
            /\ reports' = <<Report("INFO", <<"Removed sync constraints">>)>>
            /\ result' = "FINISHED"
    /\ before' = pose
    /\ UNCHANGED <<source, target, common_bones>>
    /\ UNCHANGED cleaner_scene /\ NoSelectCall

\* NH_PT_SyncTransformPanel.draw: the matching-bones box
PanelDraw ==
    /\ source # None /\ target # None
    /\ op' = "draw"
    /\ common_bones' = get_common_bone_names(source, target)
    /\ result' = None
    /\ reports' = <<>>
    /\ before' = pose
    /\ UNCHANGED <<pose, source, target>>
    /\ UNCHANGED cleaner_scene /\ NoSelectCall

\* the user picks the source armature in the panel (nh_sync_source)
SetSource ==
    /\ \E a \in Armatures \cup {None} : a # source /\ source' = a
    /\ op' = "user" /\ result' = None /\ reports' = <<>>
    /\ before' = pose
    /\ UNCHANGED <<pose, target, common_bones>>
    /\ UNCHANGED cleaner_scene /\ NoSelectCall

\* the user picks the target armature in the panel (nh_sync_target)
SetTarget ==
    /\ \E a \in Armatures \cup {None} : a # target /\ target' = a
    /\ op' = "user" /\ result' = None /\ reports' = <<>>
    /\ before' = pose
    /\ UNCHANGED <<pose, source, common_bones>>
    /\ UNCHANGED cleaner_scene /\ NoSelectCall

----------------------------------------------------------------------------
(* NH_BoneCleaner *)

ModNames == {"Armature", "Armature.001"}

\* mesh.modifiers.get(name) of a name the mesh has no modifier of
NoMod == [type |-> "NONE", object |-> None]

\* context.selected_objects is in the scene's object order
MeshOrder == <<"M1", "M2">>

IsSelected(m) == m \in selected_objects

\* [obj for obj in context.selected_objects if obj.type == 'MESH']
SelectedMeshes == SelectSeq(MeshOrder, IsSelected)

\* mesh.modifiers.get(name)
ModifiersGet(mesh, name) ==
    IF name \in DOMAIN modifiers[mesh] THEN modifiers[mesh][name] ELSE NoMod

\* mod.type == 'ARMATURE' and mod.object
IsBoundArmatureMod(mod) == mod.type = "ARMATURE" /\ mod.object # None

\* find_common_armature_modifier: mod_map holds, for every name some mesh has
\* a bound armature modifier of, the armature of the last such mesh; common
\* holds the names every mesh has one of
find_common_armature_modifier(meshes) ==
    LET has(i, n)  == IsBoundArmatureMod(modifiers[meshes[i]][n])
        counted(n) == {i \in 1..Len(meshes) : has(i, n)}
        named      == {n \in ModNames : counted(n) # {}}
        last(n)    == CHOOSE i \in counted(n) : \A j \in counted(n) : j <= i
    IN  [common  |-> {n \in named : Cardinality(counted(n)) = Len(meshes)},
         mod_map |-> [n \in named |-> modifiers[meshes[last(n)]][n].object]]

\* BoneCleanerProperties.modifier_name: an enum over the common modifier
\* names of the selected meshes; it reads "" when its stored value is none
\* of the items
EnumValues == find_common_armature_modifier(SelectedMeshes).common \cup {""}

\* obj.vertex_groups.find(group_name): the 0-based index, or -1
VertexGroupsFind(obj, group_name) ==
    IF \E i \in 1..Len(vertex_groups[obj]) : vertex_groups[obj][i] = group_name
    THEN (CHOOSE i \in 1..Len(vertex_groups[obj]) : vertex_groups[obj][i] = group_name) - 1
    ELSE -1

RECURSIVE WeightsFrom(_, _, _)
\* the loop of get_vertex_group_weights from vertex v on
WeightsFrom(obj, idx, v) ==
    IF v > Len(vertices[obj]) THEN <<>>
    ELSE (IF idx \in DOMAIN vertices[obj][v] THEN <<vertices[obj][v][idx]>> ELSE <<>>)
         \o WeightsFrom(obj, idx, v + 1)

get_vertex_group_weights(obj, group_name) ==
    LET idx == VertexGroupsFind(obj, group_name)
    IN  IF idx = -1 THEN <<>> ELSE WeightsFrom(obj, idx, 1)

\* any(w > 0.0 for w in weights)
AnyPositive(weights) == \E i \in 1..Len(weights) : weights[i] > 0

\* the used_bones loop of execute, lines 70-78
UsedBones(meshes, name, armature) ==
    UNION {
        LET mesh == meshes[i]
            mod  == ModifiersGet(mesh, name)
        IN  IF mod.type = "NONE" \/ mod.type # "ARMATURE" \/ mod.object # armature
            THEN {}
            ELSE {vertex_groups[mesh][k] : k \in
                     {j \in 1..Len(vertex_groups[mesh]) :
                         AnyPositive(get_vertex_group_weights(mesh, vertex_groups[mesh][j]))}}
        : i \in 1..Len(meshes)}

RECURSIVE ParentChain(_, _)
\* while bone: expanded_set.add(bone.name); bone = bone.parent, over arm.data.bones
ParentChain(data_bones, bone) ==
    IF bone = None \/ bone \notin DOMAIN data_bones THEN {}
    ELSE {bone} \cup ParentChain(data_bones, data_bones[bone])

\* the preserve_hierarchy block of execute, lines 80-87
ExpandUsed(data_bones, used) == UNION {ParentChain(data_bones, b) : b \in used}

\* leaving Edit Mode writes the edit bones of the edited armature back to
\* its data bones
FlushEdit ==
    IF mode = "EDIT_ARMATURE" THEN [bones EXCEPT ![active] = edit_bones[active]] ELSE bones

\* BONECLEANER_OT_SelectUnusedBones.execute
SelectUnusedBones ==
    \E name \in EnumValues : \E preserve \in BOOLEAN :
        LET meshes   == SelectedMeshes
            found    == find_common_armature_modifier(meshes)
            armature == IF name \in DOMAIN found.mod_map THEN found.mod_map[name] ELSE None
            used     == UsedBones(meshes, name, armature)
            used_bones == IF preserve THEN ExpandUsed(bones[armature], used) ELSE used
        IN
        /\ op' = "bonecleaner.select_unused_bones"
        /\ mod_name' = name
        /\ preserve_hierarchy' = preserve
        /\ IF meshes = <<>>
           THEN /\ reports' = <<Report("ERROR", <<"At least one mesh must be selected.">>)>>
                /\ result' = "CANCELLED"
                /\ arm' = None
                /\ UNCHANGED cleaner_scene
           ELSE IF armature = None
           THEN /\ reports' = <<Report("ERROR", <<"Modifier not found or inconsistent across meshes.">>)>>
                /\ result' = "CANCELLED"
                /\ arm' = None
                /\ UNCHANGED cleaner_scene
           ELSE IF active = None
           THEN \* bpy.ops.object.mode_set polls for an active object and raises
                /\ reports' = <<>>
                /\ result' = "EXCEPTION"
                /\ arm' = armature
                /\ UNCHANGED cleaner_scene
           ELSE /\ bones' = FlushEdit
                /\ active' = armature
                /\ mode' = "EDIT_ARMATURE"
                /\ edit_bones' = [edit_bones EXCEPT ![armature] = bones'[armature]]
                /\ select' = [select EXCEPT ![armature] =
                                 {b \in DOMAIN edit_bones'[armature] : b \notin used_bones}]
                /\ reports' = <<>>
                /\ result' = "FINISHED"
                /\ arm' = armature
                /\ UNCHANGED <<selected_objects, modifiers, vertex_groups, vertices>>
        /\ UNCHANGED sync_vars

RECURSIVE KeptParent(_, _, _)
\* the parent a bone is left with: the nearest ancestor that is not deleted
KeptParent(ebones, deleted, p) ==
    IF p = None \/ p \notin deleted THEN p ELSE KeptParent(ebones, deleted, ebones[p])

\* bpy.ops.armature.delete(): the selected edit bones go, and their children
\* are handed to the nearest parent that stays
ArmatureDelete(ebones, deleted) ==
    [b \in DOMAIN ebones \ deleted |-> KeptParent(ebones, deleted, ebones[b])]

\* a variant without the mode test of line 104
DeleteSelectedBones_any_mode ==
    /\ op' = "bonecleaner.delete_selected_bones"
    /\ active \in Armatures
    /\ edit_bones' = [edit_bones EXCEPT ![active] = ArmatureDelete(edit_bones[active], select[active])]
    /\ select' = [select EXCEPT ![active] = {}]
    /\ reports' = <<>>
    /\ result' = "FINISHED"
    /\ UNCHANGED <<selected_objects, active, mode, modifiers, vertex_groups, vertices, bones>>
    /\ UNCHANGED <<preserve_hierarchy, mod_name, arm>>
    /\ UNCHANGED sync_vars

\* BONECLEANER_OT_DeleteSelectedBones.execute
DeleteSelectedBones ==
    /\ op' = "bonecleaner.delete_selected_bones"
    /\ IF mode # "EDIT_ARMATURE"
       THEN /\ reports' = <<Report("ERROR", <<"Must be in Edit Mode for Armature.">>)>>
            /\ result' = "CANCELLED"
            /\ UNCHANGED <<edit_bones, select>>
       ELSE /\ edit_bones' = [edit_bones EXCEPT ![active] =
                                 ArmatureDelete(edit_bones[active], select[active])]
            /\ select' = [select EXCEPT ![active] = {}]
            /\ reports' = <<>>
            /\ result' = "FINISHED"
    /\ UNCHANGED <<selected_objects, active, mode, modifiers, vertex_groups, vertices, bones>>
    /\ UNCHANGED <<preserve_hierarchy, mod_name, arm>>
    /\ UNCHANGED sync_vars

\* a variant that counts a group as used by any entry, zero weights included
UsedIndices_nonempty(mesh) ==
    {g \in 0..(Len(vertex_groups[mesh]) - 1) :
        \E v \in 1..Len(vertices[mesh]) : g \in DOMAIN vertices[mesh][v]}

\* the used set of DeleteUnusedVertexGroups, lines 125-129: the 0-based
\* indices with a positive weight on some vertex
UsedIndices(mesh) ==
    {g \in 0..(Len(vertex_groups[mesh]) - 1) :
        \E v \in 1..Len(vertices[mesh]) :
            g \in DOMAIN vertices[mesh][v] /\ vertices[mesh][v][g] > 0}

RECURSIVE ToRemoveFrom(_, _)
\* to_remove, line 131, from the 0-based index i on: the names of the groups
\* whose index is not in used
ToRemoveFrom(mesh, i) ==
    IF i >= Len(vertex_groups[mesh]) THEN <<>>
    ELSE (IF i \notin UsedIndices(mesh) THEN <<vertex_groups[mesh][i + 1]>> ELSE <<>>)
         \o ToRemoveFrom(mesh, i + 1)

ToRemove(mesh) == ToRemoveFrom(mesh, 0)

\* mesh.vertex_groups.remove(mesh.vertex_groups[name]) on the pair
\* [groups, verts] of one mesh: the group leaves the list, every vertex
\* loses its entry for it, and the entries of later groups move down by one
VertexGroupsRemove(md, name) ==
    LET i == (CHOOSE k \in 1..Len(md.groups) : md.groups[k] = name) - 1
        shift(g) == IF g > i THEN g - 1 ELSE g
    IN  [groups |-> SubSeq(md.groups, 1, i) \o SubSeq(md.groups, i + 2, Len(md.groups)),
         verts  |-> [v \in 1..Len(md.verts) |->
                        [g \in {shift(h) : h \in DOMAIN md.verts[v] \ {i}} |->
                            IF g >= i THEN md.verts[v][g + 1] ELSE md.verts[v][g]]]]

RECURSIVE RemoveAll(_, _, _)
\* for name in to_remove: mesh.vertex_groups.remove(...)
RemoveAll(md, to_remove, k) ==
    IF k > Len(to_remove) THEN md
    ELSE RemoveAll(VertexGroupsRemove(md, to_remove[k]), to_remove, k + 1)

\* one pass of the loop over meshes, lines 124-134
CleanMesh(mesh) ==
    RemoveAll([groups |-> vertex_groups[mesh], verts |-> vertices[mesh]], ToRemove(mesh), 1)

RECURSIVE TotalRemoved(_, _)
\* total_removed after the meshes from position k on
TotalRemoved(meshes, k) ==
    IF k > Len(meshes) THEN 0
    ELSE Len(ToRemove(meshes[k])) + TotalRemoved(meshes, k + 1)

\* BONECLEANER_OT_DeleteUnusedVertexGroups.execute
DeleteUnusedVertexGroups ==
    LET meshes == SelectedMeshes IN
    /\ op' = "bonecleaner.delete_unused_vertex_groups"
    /\ IF meshes = <<>>
       THEN /\ reports' = <<Report("ERROR", <<"At least one mesh must be selected.">>)>>
            /\ result' = "CANCELLED"
            /\ UNCHANGED <<vertex_groups, vertices>>
       ELSE /\ vertex_groups' = [m \in Meshes |->
                                    IF m \in selected_objects THEN CleanMesh(m).groups
                                    ELSE vertex_groups[m]]
            /\ vertices' = [m \in Meshes |->
                               IF m \in selected_objects THEN CleanMesh(m).verts
                               ELSE vertices[m]]
            /\ reports' = <<Report("INFO", <<"Removed", TotalRemoved(meshes, 1), "vertex groups.">>)>>
            /\ result' = "FINISHED"
    /\ NoSelectCall
    /\ UNCHANGED <<selected_objects, active, mode, modifiers, bones, edit_bones, select>>
    /\ UNCHANGED sync_vars

\* the user selects or deselects a mesh object
ToggleSelect ==
    /\ \E m \in Meshes :
           selected_objects' = IF m \in selected_objects THEN selected_objects \ {m}
                                                         ELSE selected_objects \cup {m}
    /\ op' = "user" /\ result' = None /\ reports' = <<>>
    /\ NoSelectCall
    /\ UNCHANGED <<active, mode, modifiers, vertex_groups, vertices, bones, edit_bones, select>>
    /\ UNCHANGED sync_vars

\* the user leaves Edit Mode of the armature
ExitEditMode ==
    /\ mode = "EDIT_ARMATURE"
    /\ mode' = "OBJECT"
    /\ bones' = FlushEdit
    /\ op' = "user" /\ result' = None /\ reports' = <<>>
    /\ NoSelectCall
    /\ UNCHANGED <<selected_objects, active, modifiers, vertex_groups, vertices, edit_bones, select>>
    /\ UNCHANGED sync_vars

\* the user gives an edit bone of the armature being edited another parent,
\* or none; a bone is never parented to itself or to one of its descendants
EditBoneParent ==
    /\ mode = "EDIT_ARMATURE"
    /\ \E b \in DOMAIN edit_bones[active] :
       \E p \in (DOMAIN edit_bones[active] \ {b}) \cup {None} :
           /\ b \notin ParentChain(edit_bones[active], p)
           /\ p # edit_bones[active][b]
           /\ edit_bones' = [edit_bones EXCEPT ![active][b] = p]
    /\ op' = "user" /\ result' = None /\ reports' = <<>>
    /\ NoSelectCall
    /\ UNCHANGED <<selected_objects, active, mode, modifiers, vertex_groups, vertices, bones, select>>
    /\ UNCHANGED sync_vars

----------------------------------------------------------------------------
(* Scenes of NH_SyncTransform *)

\* the pose-bone names of the scenes: "B", "a", "ab", "b"
PoseBoneNames == {<<66>>, <<97>>, <<97, 98>>, <<98>>}

\* the longest constraint stack a scene starts with
MaxStack == 3

\* an IK constraint named "IK"
Ik ==
    [type |-> "IK", name |-> <<73, 75>>, target |-> None, subtarget |-> <<>>,
     target_space |-> "WORLD", owner_space |-> "WORLD"]

\* a limit constraint the user named "NH_SYNC_", which is no sync prefix
Lim ==
    [type |-> "LIMIT_ROTATION", name |-> <<78, 72, 95, 83, 89, 78, 67, 95>>,
     target |-> None, subtarget |-> <<>>,
     target_space |-> "LOCAL", owner_space |-> "LOCAL"]

\* a sync rotation constraint of bone n the user has switched to local space
OldRot(n) ==
    [type |-> "COPY_ROTATION", name |-> PREFIXES.ROT \o n, target |-> "A1",
     subtarget |-> n, target_space |-> "LOCAL", owner_space |-> "LOCAL"]

\* a sync location constraint left from before the bone was renamed from "zz"
OldLoc ==
    [type |-> "COPY_LOCATION", name |-> PREFIXES.LOC \o <<122, 122>>, target |-> "A2",
     subtarget |-> <<122, 122>>, target_space |-> "WORLD", owner_space |-> "WORLD"]

\* a sync scale constraint of bone n as Apply with source A1 makes it
OldScl(n) ==
    [type |-> "COPY_SCALE", name |-> PREFIXES.SCL \o n, target |-> "A1",
     subtarget |-> n, target_space |-> "WORLD", owner_space |-> "WORLD"]

\* the sequences of distinct elements of S, of length at most n
InjSeqs(S, n) ==
    {s \in UNION {[1..k -> S] : k \in 0..n} :
        \A i, j \in 1..Len(s) : i # j => s[i] # s[j]}

\* the stacks a pose bone n may start with
Stacks(n) == InjSeqs({Ik, Lim, OldRot(n), OldLoc, OldScl(n)}, MaxStack)

\* the stacks with no sync constraint
CleanStacks == InjSeqs({Ik, Lim}, MaxStack)

\* two skeletons sharing the bone "ab"
DefaultPoseBones == [a \in Armatures |-> IF a = "A1" THEN {<<97>>, <<97, 98>>}
                                                      ELSE {<<97, 98>>, <<98>>}]

\* nothing run yet
NoCall == op = "none" /\ result = None /\ reports = <<>>

\* the NH_BoneCleaner side of a scene the sync add-on is checked in
CleanerIdle ==
    /\ selected_objects = {}
    /\ active = None
    /\ mode = "OBJECT"
    /\ modifiers = [m \in Meshes |-> [n \in ModNames |-> NoMod]]
    /\ vertex_groups = [m \in Meshes |-> <<>>]
    /\ vertices = [m \in Meshes |-> <<>>]
    /\ bones = [a \in Armatures |-> <<>>]
    /\ edit_bones = bones
    /\ select = [a \in Armatures |-> {}]
    /\ preserve_hierarchy = TRUE
    /\ mod_name = ""
    /\ arm = None

\* any two skeletons over PoseBoneNames, no constraint anywhere, both pointers set
InitCommon ==
    /\ \E d \in [Armatures -> SUBSET PoseBoneNames] :
           pose = [a \in Armatures |-> [n \in d[a] |-> <<>>]]
    /\ source \in Armatures /\ target \in Armatures
    /\ common_bones = <<>>
    /\ before = pose
    /\ CleanerIdle
    /\ NoCall

\* the default skeletons; one pose bone starts with any stack of Stacks, the
\* others with none
InitSync ==
    /\ \E a \in Armatures : \E n \in DefaultPoseBones[a] : \E st \in Stacks(n) :
           pose = [x \in Armatures |-> [y \in DefaultPoseBones[x] |->
                       IF x = a /\ y = n THEN st ELSE <<>>]]
    /\ source = None /\ target = None
    /\ common_bones = <<>>
    /\ before = pose
    /\ CleanerIdle
    /\ NoCall

\* the default skeletons with no sync constraint on any bone
InitSyncClean ==
    /\ \E a \in Armatures : \E n \in DefaultPoseBones[a] : \E st \in CleanStacks :
           pose = [x \in Armatures |-> [y \in DefaultPoseBones[x] |->
                       IF x = a /\ y = n THEN st ELSE <<>>]]
    /\ source = None /\ target = None
    /\ common_bones = <<>>
    /\ before = pose
    /\ CleanerIdle
    /\ NoCall

NextSync == ApplySyncTransform \/ RemoveSyncTransform \/ SetSource \/ SetTarget

NextCommon == PanelDraw \/ SetSource \/ SetTarget

SpecSync == InitSync /\ [][NextSync]_vars

SpecSyncClean == InitSyncClean /\ [][NextSync]_vars

SpecCommon == InitCommon /\ [][NextCommon]_vars

----------------------------------------------------------------------------
(* Scenes of NH_BoneCleaner *)

\* the bones of a rig, parents before children
BoneList == <<"Hips", "Spine", "Chest">>

RigBones == {BoneList[i] : i \in 1..Len(BoneList)}

\* the longest vertex-group list a mesh starts with
MaxGroups == 2

\* every hierarchy over RigBones in which a bone's parent comes before it
Forests ==
    {f \in [RigBones -> RigBones \cup {None}] :
        \A i \in 1..Len(BoneList) :
            f[BoneList[i]] = None \/ \E j \in 1..(i - 1) : f[BoneList[i]] = BoneList[j]}

\* the chain Hips > Spine > Chest
Chain == [b \in RigBones |->
             IF b = BoneList[1] THEN None
             ELSE BoneList[(CHOOSE i \in 1..Len(BoneList) : BoneList[i] = b) - 1]]

\* the weights a vertex may carry for the groups 0..n-1: none, zero or positive
VertexWeights(n) == UNION {[d -> {0, 1}] : d \in SUBSET (0..(n - 1))}

\* the vertex groups and the two vertices a mesh may start with
MeshData ==
    UNION {{[groups |-> g, verts |-> w] : w \in [1..2 -> VertexWeights(Len(g))]} :
           g \in InjSeqs(RigBones, MaxGroups)}

\* a mesh with one group per bone of the rig: the bones of U weighted on
\* the second vertex, every group with a zero weight on the first
UsageMesh(U) ==
    [groups |-> BoneList,
     verts  |-> <<[g \in 0..(Len(BoneList) - 1) |-> 0],
                  [g \in {h \in 0..(Len(BoneList) - 1) : BoneList[h + 1] \in U} |-> 1]>>]

\* the body mesh: Spine weighted, Hips with zero weights only
BodyMesh ==
    [groups |-> <<"Spine", "Hips">>,
     verts  |-> <<[g \in {0} |-> 1], [g \in {0, 1} |-> 0]>>]

\* the cloth mesh: Hips weighted, Chest with one zero weight
ClothMesh ==
    [groups |-> <<"Chest", "Hips">>,
     verts  |-> <<[g \in {1} |-> 1], [g \in {0} |-> 0]>>]

\* a mesh with no vertex group
BareMesh == [groups |-> <<>>, verts |-> <<[g \in {} |-> 0], [g \in {} |-> 0]>>]

BoundTo(a) == [type |-> "ARMATURE", object |-> a]

\* what a modifier slot of a mesh may hold
ModValues == {NoMod, BoundTo(None), BoundTo("A1"), BoundTo("A2"),
              [type |-> "SUBSURF", object |-> None]}

\* both meshes skinned to A1 by the modifier "Armature"
BothOnA1 == [m \in Meshes |-> [n \in ModNames |-> IF n = "Armature" THEN BoundTo("A1") ELSE NoMod]]

\* the NH_SyncTransform side of a scene the cleaner is checked in
SyncIdle ==
    /\ pose = [a \in Armatures |-> [n \in DefaultPoseBones[a] |-> <<>>]]
    /\ source = None /\ target = None
    /\ common_bones = <<>>
    /\ before = pose

\* Object Mode, no bone selected, no mesh selected
CleanerStart ==
    /\ selected_objects = {}
    /\ mode = "OBJECT"
    /\ edit_bones = bones
    /\ select = [a \in Armatures |-> {}]
    /\ preserve_hierarchy = TRUE
    /\ mod_name = ""
    /\ arm = None

\* any hierarchy of A1 and any set of weighted bones on M1; the cloth mesh
\* beside it, both skinned to A1; with or without an active object
InitUsage ==
    /\ \E f \in Forests : bones = [a \in Armatures |-> IF a = "A1" THEN f ELSE Chain]
    /\ \E U \in SUBSET RigBones :
           /\ vertex_groups = [m \in Meshes |-> IF m = "M1" THEN UsageMesh(U).groups ELSE ClothMesh.groups]
           /\ vertices = [m \in Meshes |-> IF m = "M1" THEN UsageMesh(U).verts ELSE ClothMesh.verts]
    /\ modifiers = BothOnA1
    /\ active \in {None, "M1"}

\* any modifier "Armature" on both meshes, each with or without a second
\* armature modifier "Armature.001" bound to A1
InitModifiers ==
    /\ bones = [a \in Armatures |-> Chain]
    /\ vertex_groups = [m \in Meshes |-> IF m = "M1" THEN BodyMesh.groups ELSE ClothMesh.groups]
    /\ vertices = [m \in Meshes |-> IF m = "M1" THEN BodyMesh.verts ELSE ClothMesh.verts]
    /\ \E first \in [Meshes -> ModValues] : \E second \in [Meshes -> {NoMod, BoundTo("A1")}] :
           modifiers = [m \in Meshes |-> [n \in ModNames |->
                           IF n = "Armature" THEN first[m] ELSE second[m]]]
    /\ active = "M1"

InitCleaner ==
    /\ InitUsage \/ InitModifiers
    /\ CleanerStart
    /\ SyncIdle
    /\ NoCall

NextCleaner ==
    \/ SelectUnusedBones
    \/ DeleteSelectedBones
    \/ ToggleSelect
    \/ ExitEditMode

SpecCleaner == InitCleaner /\ [][NextCleaner]_vars

\* the chain Hips > Spine > Chest on both armatures and any set of weighted
\* bones on M1, which is selected and skinned to A1
InitEdit ==
    /\ bones = [a \in Armatures |-> Chain]
    /\ \E U \in SUBSET RigBones :
           /\ vertex_groups = [m \in Meshes |-> IF m = "M1" THEN UsageMesh(U).groups ELSE ClothMesh.groups]
           /\ vertices = [m \in Meshes |-> IF m = "M1" THEN UsageMesh(U).verts ELSE ClothMesh.verts]
    /\ modifiers = BothOnA1
    /\ selected_objects = {"M1"}
    /\ active = "M1"
    /\ mode = "OBJECT"
    /\ edit_bones = bones
    /\ select = [a \in Armatures |-> {}]
    /\ preserve_hierarchy = TRUE /\ mod_name = "" /\ arm = None
    /\ SyncIdle
    /\ NoCall

\* the operators of the panel and the user's edits of the hierarchy
NextEdit ==
    \/ SelectUnusedBones
    \/ DeleteSelectedBones
    \/ ExitEditMode
    \/ EditBoneParent

SpecEdit == InitEdit /\ [][NextEdit]_vars

\* any vertex groups and weights on M1, the cloth mesh beside it
InitGroups ==
    /\ bones = [a \in Armatures |-> Chain]
    /\ \E md \in MeshData :
           /\ vertex_groups = [m \in Meshes |-> IF m = "M1" THEN md.groups ELSE ClothMesh.groups]
           /\ vertices = [m \in Meshes |-> IF m = "M1" THEN md.verts ELSE ClothMesh.verts]
    /\ modifiers = BothOnA1
    /\ active = "M1"
    /\ CleanerStart
    /\ SyncIdle
    /\ NoCall

NextGroups == DeleteUnusedVertexGroups \/ ToggleSelect

SpecGroups == InitGroups /\ [][NextGroups]_vars

\* one scene with both add-ons: the body mesh skinned to A1 and a bare mesh;
\* two skeletons of one pose bone "ab" each, an IK constraint on that of A2
Init ==
    /\ bones = [a \in Armatures |-> Chain]
    /\ vertex_groups = [m \in Meshes |-> IF m = "M1" THEN BodyMesh.groups ELSE BareMesh.groups]
    /\ vertices = [m \in Meshes |-> IF m = "M1" THEN BodyMesh.verts ELSE BareMesh.verts]
    /\ modifiers = [m \in Meshes |-> [n \in ModNames |->
                       IF m = "M1" /\ n = "Armature" THEN BoundTo("A1") ELSE NoMod]]
    /\ active = "M1"
    /\ CleanerStart
    /\ pose = [x \in Armatures |-> [y \in {<<97, 98>>} |-> IF x = "A2" THEN <<Ik>> ELSE <<>>]]
    /\ source = None /\ target = None
    /\ common_bones = <<>>
    /\ before = pose
    /\ NoCall

Next == NextCleaner \/ DeleteUnusedVertexGroups \/ NextSync

Spec == Init /\ [][Next]_vars

----------------------------------------------------------------------------
(* Properties of NH_SyncTransform *)

\* a constraint whose name starts with one of the three sync prefixes
IsSync(c) ==
    \/ StartsWith(c.name, PREFIXES.ROT)
    \/ StartsWith(c.name, PREFIXES.LOC)
    \/ StartsWith(c.name, PREFIXES.SCL)

NotSync(c) == ~IsSync(c)

\* the constraint Apply is to leave on bone n for prefix p and type t
Fresh(t, p, n) ==
    [type |-> t, name |-> p \o n, target |-> source, subtarget |-> n,
     target_space |-> "WORLD", owner_space |-> "WORLD"]

Applied == op = "nh.apply_sync_transform" /\ result = "FINISHED"

Removed == op = "nh.remove_sync_transform" /\ result = "FINISHED"

\* C2: after a finished Apply Transform Sync, every bone name n common to the
\* source and the target has on the target's pose bone n exactly three
\* constraints with a sync prefix: COPY_ROTATION NH_SYNC_ROT_n, COPY_LOCATION
\* NH_SYNC_LOC_n and COPY_SCALE NH_SYNC_SCL_n, each with target the source,
\* subtarget n and both spaces WORLD; the sync constraints the bone had before
\* (local-space ones, ones named after another bone) are gone.
C2_ApplyLeavesThree ==
    Applied =>
        \A n \in PoseBoneNames :
            (n \in DOMAIN pose[source] /\ n \in DOMAIN pose[target]) =>
                LET sy == SelectSeq(pose[target][n], IsSync)
                IN  /\ Len(sy) = 3
                    /\ {sy[i] : i \in 1..3} =
                           {Fresh("COPY_ROTATION", PREFIXES.ROT, n),
                            Fresh("COPY_LOCATION", PREFIXES.LOC, n),
                            Fresh("COPY_SCALE", PREFIXES.SCL, n)}

\* an Apply from A1 to A2 has replaced the stale sync constraints of the
\* common bone "ab" and kept its IK constraint
C2_Witness ==
    /\ Applied /\ source = "A1" /\ target = "A2"
    /\ before["A2"][<<97, 98>>] = <<OldRot(<<97, 98>>), Ik, OldLoc>>
    /\ Len(pose["A2"][<<97, 98>>]) = 4

\* C3: after a finished Remove Transform Sync no pose bone of the target has a
\* constraint with a sync prefix, whatever subset was there before and whether
\* or not the bone is common with the source; every other constraint of every
\* bone is kept in its order, and no other armature is touched.
C3_RemoveLeavesRest ==
    Removed =>
        /\ DOMAIN pose = DOMAIN before
        /\ \A a \in Armatures : DOMAIN pose[a] = DOMAIN before[a]
        /\ \A n \in DOMAIN pose[target] :
               /\ \A i \in 1..Len(pose[target][n]) : ~IsSync(pose[target][n][i])
               /\ pose[target][n] = SelectSeq(before[target][n], NotSync)
        /\ \A a \in Armatures \ {target} : pose[a] = before[a]

\* a Remove has taken two of the three sync kinds from between two other
\* constraints of the bone "b", which the source does not have
C3_Witness ==
    /\ Removed /\ target = "A2" /\ source = "A1"
    /\ before["A2"][<<98>>] = <<Lim, OldLoc, Ik>>
    /\ pose["A2"][<<98>>] = <<Lim, Ik>>

\* C4: get_common_bone_names(A, B) is exactly the names of both: each returned
\* name is a bone of both, each name of both is returned, none twice, in
\* ascending order of code points, and the same list for (B, A).
C4_CommonNames ==
    op = "draw" =>
        /\ \A i \in 1..Len(common_bones) :
               common_bones[i] \in DOMAIN pose[source] /\ common_bones[i] \in DOMAIN pose[target]
        /\ \A n \in PoseBoneNames :
               (n \in DOMAIN pose[source] /\ n \in DOMAIN pose[target]) =>
                   \E i \in 1..Len(common_bones) : common_bones[i] = n
        /\ \A i, j \in 1..Len(common_bones) :
               i < j => common_bones[i] # common_bones[j] /\ StrLess(common_bones[i], common_bones[j])
        /\ common_bones = get_common_bone_names(target, source)

\* the panel has listed the three common bones "B", "a", "ab" of two
\* different skeletons, the upper-case name first
C4_Witness ==
    /\ op = "draw" /\ source # target
    /\ DOMAIN pose[source] # DOMAIN pose[target]
    /\ common_bones = <<(<<66>>), (<<97>>), (<<97, 98>>)>>

\* every pose bone has no sync constraint, or one of each prefix with its own
\* name as subtarget
C9_NoneOrThree ==
    \A a \in Armatures : \A n \in DOMAIN pose[a] :
        LET sy == SelectSeq(pose[a][n], IsSync)
        IN  \/ sy = <<>>
            \/ /\ Len(sy) = 3
               /\ \A p \in {PREFIXES.ROT, PREFIXES.LOC, PREFIXES.SCL} :
                      Cardinality({i \in 1..3 : StartsWith(sy[i].name, p)}) = 1
               /\ \A i \in 1..3 : sy[i].subtarget = n

\* an Apply right after a finished Apply with the same source and target
C9_ApplyTwice ==
    (Applied /\ op' = "nh.apply_sync_transform" /\ result' = "FINISHED") => pose' = pose

\* C9: from a scene with no sync constraint, after any Apply and Remove calls
\* and any changes of the source and target, every pose bone of every armature
\* has no sync constraint or exactly one of each prefix with its own name as
\* subtarget; and Apply directly after Apply changes no stack.
C9_SyncStacksWellFormed == [](C9_NoneOrThree) /\ [][C9_ApplyTwice]_vars

\* a second Apply in a row found its own three constraints and left the stacks
\* as they were, while the other armature carries constraints of an earlier
\* Apply with another source
C9_Witness ==
    /\ Applied /\ pose = before
    /\ source = "A1" /\ target = "A2"
    /\ Len(SelectSeq(pose["A2"][<<97, 98>>], IsSync)) = 3
    /\ Len(SelectSeq(pose["A1"][<<97>>], IsSync)) = 3

----------------------------------------------------------------------------
(* Properties of NH_BoneCleaner *)

\* vertex group number k (from 1) of the mesh data md has a positive weight
\* on some vertex
Weighted(md, k) ==
    \E v \in 1..Len(md.verts) : (k - 1) \in DOMAIN md.verts[v] /\ md.verts[v][k - 1] > 0

Data(m) == [groups |-> vertex_groups[m], verts |-> vertices[m]]

\* the selected meshes bound to the chosen armature through the chosen modifier
BoundMeshes ==
    {m \in selected_objects :
        /\ mod_name \in ModNames
        /\ modifiers[m][mod_name].type = "ARMATURE"
        /\ modifiers[m][mod_name].object = arm}

\* some bound mesh has a vertex group of this name with a positive weight
Used(b) ==
    \E m \in BoundMeshes : \E k \in 1..Len(vertex_groups[m]) :
        vertex_groups[m][k] = b /\ Weighted(Data(m), k)

RECURSIVE AncestorsOf(_, _)
\* the parent, grandparent, ... of bone b in the hierarchy h
AncestorsOf(h, b) ==
    IF h[b] = None THEN {} ELSE {h[b]} \cup AncestorsOf(h, h[b])

SelectFinished == op = "bonecleaner.select_unused_bones" /\ result = "FINISHED"

\* C1: after a finished Select Unused Bones every edit bone b of the chosen
\* armature is selected exactly if, with preserve_hierarchy off, b is not
\* used, and with preserve_hierarchy on, b is neither used nor an ancestor of
\* a used edit bone.
C1_SelectedIffUnused ==
    SelectFinished =>
        LET h == edit_bones[arm]
        IN  \A b \in DOMAIN h :
                b \in select[arm] <=>
                    IF preserve_hierarchy
                    THEN ~Used(b) /\ ~\E u \in DOMAIN h : Used(u) /\ b \in AncestorsOf(h, u)
                    ELSE ~Used(b)

\* the chosen modifier is no bound armature modifier on some selected mesh,
\* or the selected meshes' modifiers of that name point at different armatures
Inconsistent(name) ==
    \/ \E m \in selected_objects : ~IsBoundArmatureMod(ModifiersGet(m, name))
    \/ \E m1, m2 \in selected_objects :
           ModifiersGet(m1, name).object # ModifiersGet(m2, name).object

\* C6: Select Unused Bones run on selected meshes whose chosen modifier is
\* inconsistent is cancelled with one error report and changes no bone
\* selection, mode or active object.
C6_InconsistentCancelled ==
    [][(/\ op' = "bonecleaner.select_unused_bones"
        /\ selected_objects # {}
        /\ Inconsistent(mod_name'))
       => (/\ result' = "CANCELLED"
           /\ Len(reports') = 1 /\ reports'[1].type = "ERROR"
           /\ UNCHANGED <<select, mode, active>>)]_vars

\* the bones left unselected are closed under parent
C8_UnselectedClosed ==
    (SelectFinished /\ preserve_hierarchy) =>
        LET h == edit_bones[arm]
        IN  \A b \in DOMAIN h \ select[arm] : h[b] = None \/ h[b] \notin select[arm]

\* a Delete Selected Bones right after it finishes and keeps every used bone
\* and its ancestors, each with its parent
C8_DeleteKeepsChains ==
    (SelectFinished /\ preserve_hierarchy /\ op' = "bonecleaner.delete_selected_bones") =>
        /\ result' = "FINISHED"
        /\ active = arm /\ mode = "EDIT_ARMATURE"
        /\ \A u \in DOMAIN edit_bones[arm] :
               Used(u) =>
                   \A b \in {u} \cup AncestorsOf(edit_bones[arm], u) :
                       /\ b \in DOMAIN edit_bones'[arm]
                       /\ edit_bones'[arm][b] = edit_bones[arm][b]

\* C8: with preserve_hierarchy on, the bones a finished Select Unused Bones
\* leaves unselected are closed under parent, and a Delete Selected Bones
\* right after it is not cancelled (the armature is active and in Edit Mode)
\* and leaves every used bone and all its ancestors in the armature, each
\* with the parent it had.
C8_HierarchyPreserved == [](C8_UnselectedClosed) /\ [][C8_DeleteKeepsChains]_vars

\* the names of the groups of md with a positive weight, in order
WeightedNames(md) ==
    LET ks == {k \in 1..Len(md.groups) : Weighted(md, k)}
        nth(S) == [i \in 1..Cardinality(S) |->
                     CHOOSE k \in S : Cardinality({j \in S : j < k}) = i - 1]
    IN  [i \in 1..Cardinality(ks) |-> md.groups[nth(ks)[i]]]

RECURSIVE SumOver(_, _)
SumOver(f, S) ==
    IF S = {} THEN 0 ELSE LET x == CHOOSE y \in S : TRUE IN f[x] + SumOver(f, S \ {x})

\* C5: Delete Unused Vertex Groups, run with a mesh selected, removes from
\* each selected mesh exactly the vertex groups no vertex has a positive
\* weight for (no entry, or zero entries only), keeps the others in their
\* order, leaves unselected meshes as they are, and reports the number of
\* groups removed over all selected meshes.
C5_RemovesUnweighted ==
    [][(op' = "bonecleaner.delete_unused_vertex_groups" /\ selected_objects # {}) =>
        /\ result' = "FINISHED"
        /\ \A m \in Meshes :
               IF m \in selected_objects
               THEN vertex_groups'[m] = WeightedNames(Data(m))
               ELSE vertex_groups'[m] = vertex_groups[m] /\ vertices'[m] = vertices[m]
        /\ Len(reports') = 1
        /\ reports'[1].msg[2] =
               SumOver([m \in Meshes |-> Len(vertex_groups[m]) - Len(vertex_groups'[m])],
                       selected_objects)]_vars

\* both meshes selected: two groups were removed, one of each mesh, and each
\* mesh kept its weighted group; M1's removed group had a zero weight
C5_Witness ==
    /\ op = "bonecleaner.delete_unused_vertex_groups" /\ result = "FINISHED"
    /\ selected_objects = Meshes
    /\ reports[1].msg[2] = 2
    /\ Len(vertex_groups["M1"]) = 1 /\ Len(vertex_groups["M2"]) = 1
    /\ Weighted(Data("M1"), 1) /\ Weighted(Data("M2"), 1)

\* C7: an operator whose input validation fails returns CANCELLED after one
\* report and leaves the scene as it is: Select Unused Bones and Delete
\* Unused Vertex Groups with no mesh selected, Apply Transform Sync with the
\* source or the target unset, Remove Transform Sync with the target unset,
\* Delete Selected Bones outside the armature's Edit Mode.
C7_ValidationFails ==
    (\/ /\ op' \in {"bonecleaner.select_unused_bones", "bonecleaner.delete_unused_vertex_groups"}
        /\ selected_objects = {}
     \/ op' = "nh.apply_sync_transform" /\ (source = None \/ target = None)
     \/ op' = "nh.remove_sync_transform" /\ target = None
     \/ op' = "bonecleaner.delete_selected_bones" /\ mode # "EDIT_ARMATURE")
    => /\ result' = "CANCELLED"
       /\ Len(reports') = 1
       /\ UNCHANGED <<cleaner_scene, pose, source, target>>

C7_CancelledUnchanged == [][C7_ValidationFails]_vars

\* Delete Selected Bones was cancelled in Object Mode with selected bones
\* left in the armature
C7_Witness ==
    /\ op = "bonecleaner.delete_selected_bones" /\ result = "CANCELLED"
    /\ mode = "OBJECT" /\ active = "A1"
    /\ select["A1"] # {}
    /\ reports = <<Report("ERROR", <<"Must be in Edit Mode for Armature.">>)>>

====
